---- MODULE Spec2Model ----
(***************************************************************************)
(* The view consolidation engine of the multi-workbook migration           *)
(* orchestrator (src/utility.py): ViewConsolidator's registry of view      *)
(* definitions, the fingerprint of a definition, consolidate() and the     *)
(* structural difference of two definitions; CalculatedFieldConsolidator;  *)
(* and a run of EnterpriseMigrationOrchestrator over a list of workbooks,  *)
(* from parsing to the report and the generated files.                     *)
(*                                                                         *)
(* A Python dict keeps its keys in insertion order, so a dict is modelled  *)
(* as the sequence of its items.  A list built from a Python set has no    *)
(* defined order and is modelled as the set.                               *)
(***************************************************************************)
EXTENDS Integers, Sequences, FiniteSets, TLC

VARIABLES
    view_registry,  \* ViewConsolidator.view_registry: items <<name, list of observations>>
    result,         \* what the last call on the consolidator returned
    last_call,      \* the last call on the consolidator and its arguments
    def1, def2,     \* the two definitions handed to the pure functions
    out,            \* what the pure functions returned for def1 and def2
    field_registry, \* CalculatedFieldConsolidator.field_registry
    workbook_paths, \* the run's input: per workbook its file name and its document
    parsers,        \* EnterpriseMigrationOrchestrator.parsers
    pc,             \* where the run is
    wb,             \* workbooks the for loop of analyze_all_workbooks has begun
    ds,             \* data sources of the current parser already registered
    events,         \* the calls the run has made, in order
    unified_views,  \* EnterpriseMigrationOrchestrator.unified_views
    duplicate_calcs,\* EnterpriseMigrationOrchestrator.duplicate_calcs
    report,         \* what analyze_all_workbooks returned
    lookml_files    \* what generate_unified_lookml returned

\* the state of a run of the orchestrator
run_vars == <<workbook_paths, parsers, pc, wb, ds, events, unified_views,
              duplicate_calcs, report, lookml_files>>

vars == <<view_registry, result, last_call, def1, def2, out, field_registry,
          run_vars>>

-----------------------------------------------------------------------------
(* Bounds and inputs *)

\* register_view calls in one run of the registry specification
MaxObservations == 3

\* register_field calls in one run of the calculated-field specification
MaxFields == 3

\* workbooks handed to one run of the orchestrator
MaxWorkbooks == 2

\* Python's None, for a value that is absent
None == "None"

ViewNames == {"Sales", ""}
Workbooks == {"W1", "W2"}

Col(n, t, r) == [name |-> n, datatype |-> t, role |-> r]
OrderID == Col("OrderID", "integer", "dimension")
Amount == Col("Amount", "real", "measure")
AmountText == Col("Amount", "string", "dimension")
Region == Col("Region", "string", "dimension")
Profit == [name |-> "Profit", formula |-> "[Amount] * 0.2"]

\* the dict analyze_all_workbooks builds for one data source
ViewDef(n, t, db, sch, cols, calcs, sql) ==
    [name |-> n, table |-> t, database |-> db, schema |-> sch,
     columns |-> cols, calculated_fields |-> calcs, custom_sql |-> sql]

Plain(t, cols, calcs) ==
    ViewDef("Sales", t, "bigquery-public-data", "google_trends", cols, calcs, None)

\* the definitions registered in the registry specification
Definitions ==
    { Plain("orders", <<OrderID, Amount>>, <<>>),
      Plain("orders", <<AmountText, OrderID>>, <<>>),
      Plain("orders", <<OrderID, Amount, Region>>, <<>>),
      Plain("orders", <<OrderID, Region>>, <<>>),
      Plain("orders", <<OrderID, Amount>>, <<Profit>>),
      Plain("returns", <<OrderID, Amount>>, <<>>) }

\* the definitions handed to the pure functions: every table, column list,
\* calculated-field list, database, schema, name and custom query below
Tables == {"orders", "returns"}
ColumnLists ==
    { <<OrderID, Amount>>,
      <<AmountText, OrderID>>,
      <<OrderID, OrderID, Amount>>,
      <<OrderID, Amount, Region>> }
CalcLists == { <<>>, <<Profit>> }
Databases == {"bigquery-public-data", "warehouse"}
Schemas == {"google_trends", "public"}
DefNames == {"Sales", "Sales (copy)"}
CustomQueries == {None, "SELECT * FROM orders"}

AllDefinitions ==
    { ViewDef(n, t, db, sch, cols, calcs, sql) :
        n \in DefNames, t \in Tables, db \in Databases, sch \in Schemas,
        cols \in ColumnLists, calcs \in CalcLists, sql \in CustomQueries }

\* A str the code takes apart is modelled as the sequence of its characters.
\* the calculated fields registered in the calculated-field specification
FieldNames == {"Profit", "Margin"}
Formulas ==
    { <<"S", "U", "M", " ", "(", "a", ")">>,
      <<"s", "u", "m", "(", "a", ")">>,
      <<" ", "s", "u", "m", " ", "\t", "(", "a", ")", "\n">>,
      <<"s", "u", "m", " ", "(", "a", ")">>,
      <<"a", "-", "b">> }

\* the file names of the workbooks of a run, by position in workbook_paths
PathNames == <<"W1.twb", "W2.twb", "W3.twb", "W4.twb">>

\* captions of data sources
SalesCaption == <<"S", "a", "l", "e", "s">>
SalesBangCaption == <<"s", "a", "l", "e", "s", "!">>
OrdersCaption == <<"N", "e", "w", " ", " ", "O", "r", "d", "e", "r", "s">>

\* the DataSourceMock parse() makes of one datasource element: database and
\* schema are fixed and calculated_fields is empty
DataSourceMock(name, table, columns, custom_sql) ==
    [name |-> name, table |-> table, database |-> "bigquery-public-data",
     schema |-> "google_trends", columns |-> columns,
     calculated_fields |-> <<>>, custom_sql |-> custom_sql]

DataSources ==
    { DataSourceMock(SalesCaption, "orders", <<OrderID, Amount>>, None),
      DataSourceMock(SalesCaption, "orders", <<OrderID, Amount, Region>>, None),
      DataSourceMock(SalesBangCaption, "orders", <<AmountText, OrderID>>, None),
      DataSourceMock(OrdersCaption, "Custom SQL Query", <<OrderID>>,
                     "SELECT * FROM orders") }

\* a workbook document: text that is not well-formed XML; XML with a column
\* metadata-record that lacks its remote-name element; or XML that yields
\* zero, one or two data sources
Documents ==
    {[kind |-> "malformed", data_sources |-> <<>>],
     [kind |-> "incomplete", data_sources |-> <<>>],
     [kind |-> "xml", data_sources |-> <<>>]}
    \cup {[kind |-> "xml", data_sources |-> <<d>>] : d \in DataSources}
    \cup {[kind |-> "xml", data_sources |-> <<d, e>>] : d, e \in DataSources}

\* the lists of workbooks a run is started with
RECURSIVE WorkbookLists(_)
WorkbookLists(n) ==
    IF n = 0 THEN {<<>>}
    ELSE WorkbookLists(n - 1) \cup
         {Append(l, [name |-> PathNames[n], document |-> d]) :
            l \in {k \in WorkbookLists(n - 1) : Len(k) = n - 1}, d \in Documents}

-----------------------------------------------------------------------------
(* Python built-ins the code uses *)

UpperCase == <<"A", "B", "C", "D", "E", "F", "G", "H", "I", "J", "K", "L", "M",
               "N", "O", "P", "Q", "R", "S", "T", "U", "V", "W", "X", "Y", "Z">>
LowerCase == <<"a", "b", "c", "d", "e", "f", "g", "h", "i", "j", "k", "l", "m",
               "n", "o", "p", "q", "r", "s", "t", "u", "v", "w", "x", "y", "z">>
Digits == {"0", "1", "2", "3", "4", "5", "6", "7", "8", "9"}

\* the characters \s matches
Whitespace == {" ", "\t", "\n"}

\* the characters \w matches
WordChars == {UpperCase[i] : i \in 1..Len(UpperCase)} \cup
             {LowerCase[i] : i \in 1..Len(LowerCase)} \cup Digits \cup {"_"}

\* str.lower() of one character
LowerChar(c) ==
    IF \E i \in 1..Len(UpperCase) : UpperCase[i] = c
    THEN LowerCase[CHOOSE i \in 1..Len(UpperCase) : UpperCase[i] = c]
    ELSE c

\* str.lower()
Lower(str) == [i \in 1..Len(str) |-> LowerChar(str[i])]

\* str.lstrip and str.rstrip of the characters in chars
RECURSIVE LStrip(_, _)
LStrip(str, chars) ==
    IF str # <<>> /\ Head(str) \in chars THEN LStrip(Tail(str), chars) ELSE str

RECURSIVE RStrip(_, _)
RStrip(str, chars) ==
    IF str # <<>> /\ str[Len(str)] \in chars
    THEN RStrip(SubSeq(str, 1, Len(str) - 1), chars) ELSE str

\* str.strip(chars)
Strip(str, chars) == RStrip(LStrip(str, chars), chars)

\* re.sub of a pattern [chars]+ by one character: every run of characters of
\* chars becomes the one character by
RECURSIVE SubRuns(_, _, _)
SubRuns(str, chars, by) ==
    IF str = <<>> THEN <<>>
    ELSE IF Head(str) \in chars
         THEN <<by>> \o SubRuns(LStrip(str, chars), chars, by)
         ELSE <<Head(str)>> \o SubRuns(Tail(str), chars, by)

\* re.sub of a pattern [^keep] by the empty string
RECURSIVE Keep(_, _)
Keep(str, keep) ==
    IF str = <<>> THEN <<>>
    ELSE (IF Head(str) \in keep THEN <<Head(str)>> ELSE <<>>) \o Keep(Tail(str), keep)

\* str.replace(old, new) of one character by one character
Replace(str, old, new) == [i \in 1..Len(str) |-> IF str[i] = old THEN new ELSE str[i]]

\* the strings of the model in the order Python compares str (by code point)
NameOrder == <<"Amount", "OrderID", "Profit", "Region">>
Rank(s) == CHOOSE i \in 1..Len(NameOrder) : NameOrder[i] = s

\* [x['name'] for x in seq]
NamesOf(seq) == [i \in 1..Len(seq) |-> seq[i].name]

\* set(seq)
SetOf(seq) == {seq[i] : i \in 1..Len(seq)}

RECURSIVE Insert(_, _)
Insert(sorted, s) ==
    IF sorted = <<>> THEN <<s>>
    ELSE IF Rank(s) < Rank(Head(sorted)) THEN <<s>> \o sorted
    ELSE <<Head(sorted)>> \o Insert(Tail(sorted), s)

\* sorted(seq) of a list of str
RECURSIVE Sorted(_)
Sorted(seq) ==
    IF seq = <<>> THEN <<>>
    ELSE Insert(Sorted(SubSeq(seq, 1, Len(seq) - 1)), seq[Len(seq)])

-----------------------------------------------------------------------------
(* ViewConsolidator *)

\* _hash_definition with the two sorted() calls left out
HashUnsorted(definition) ==
    [table |-> definition.table,
     columns |-> NamesOf(definition.columns),
     calc_fields |-> NamesOf(definition.calculated_fields)]

\* The digest is md5 of the JSON text of key_elements.  json.dumps is
\* one-to-one on these values and md5 is taken to be collision free, so the
\* digest is modelled by the key_elements it encodes.
_hash_definition(definition) ==
    [table |-> definition.table,
     columns |-> Sorted(NamesOf(definition.columns)),
     calc_fields |-> Sorted(NamesOf(definition.calculated_fields))]

\* view_name in self.view_registry
HasKey(registry, view_name) ==
    \E i \in 1..Len(registry) : registry[i].name = view_name

KeyIndex(registry, view_name) ==
    CHOOSE i \in 1..Len(registry) : registry[i].name = view_name

\* self.view_registry[view_name]
Lookup(registry, view_name) == registry[KeyIndex(registry, view_name)].definitions

Observation(view_definition, workbook_source) ==
    [definition |-> view_definition,
     source |-> workbook_source,
     hash |-> _hash_definition(view_definition)]

\* register_view keeping one observation per (name, workbook): a second
\* registration from the same workbook takes the place of the first
RegisterViewPerWorkbook(registry, view_name, view_definition, workbook_source) ==
    LET keyed == IF HasKey(registry, view_name) THEN registry
                 ELSE Append(registry, [name |-> view_name, definitions |-> <<>>])
        i == KeyIndex(keyed, view_name)
        old == keyed[i].definitions
        obs == Observation(view_definition, workbook_source)
    IN  IF \E j \in 1..Len(old) : old[j].source = workbook_source
        THEN [keyed EXCEPT ![i].definitions =
                [j \in 1..Len(old) |->
                    IF old[j].source = workbook_source THEN obs ELSE old[j]]]
        ELSE [keyed EXCEPT ![i].definitions = Append(@, obs)]

\* the registry after register_view(view_name, view_definition, workbook_source)
register_view(registry, view_name, view_definition, workbook_source) ==
    LET keyed == IF HasKey(registry, view_name) THEN registry
                 ELSE Append(registry, [name |-> view_name, definitions |-> <<>>])
        i == KeyIndex(keyed, view_name)
    IN  [keyed EXCEPT ![i].definitions =
            Append(@, Observation(view_definition, workbook_source))]

UnifiedView(name, source_workbooks, canonical_definition, variations, merge_strategy) ==
    [name |-> name,
     source_workbooks |-> source_workbooks,
     canonical_definition |-> canonical_definition,
     variations |-> variations,
     merge_strategy |-> merge_strategy]

\* the default of the dataclass field merge_strategy
DefaultMergeStrategy == "most_complete"

\* _compute_difference with columns_only_in_def2 computed as cols1 - cols2
DifferenceOneSided(d1, d2) ==
    LET cols1 == SetOf(NamesOf(d1.columns))
        cols2 == SetOf(NamesOf(d2.columns))
        calcs1 == SetOf(NamesOf(d1.calculated_fields))
        calcs2 == SetOf(NamesOf(d2.calculated_fields))
    IN  [columns_only_in_def1 |-> cols1 \ cols2,
         columns_only_in_def2 |-> cols1 \ cols2,
         calc_fields_only_in_def1 |-> calcs1 \ calcs2,
         calc_fields_only_in_def2 |-> calcs2 \ calcs1]

_compute_difference(d1, d2) ==
    LET cols1 == SetOf(NamesOf(d1.columns))
        cols2 == SetOf(NamesOf(d2.columns))
        calcs1 == SetOf(NamesOf(d1.calculated_fields))
        calcs2 == SetOf(NamesOf(d2.calculated_fields))
    IN  [columns_only_in_def1 |-> cols1 \ cols2,
         columns_only_in_def2 |-> cols2 \ cols1,
         calc_fields_only_in_def1 |-> calcs1 \ calcs2,
         calc_fields_only_in_def2 |-> calcs2 \ calcs1]

\* the key of max(): len(columns) + len(calculated_fields)
Completeness(d) == Len(d.definition.columns) + Len(d.definition.calculated_fields)

\* the maximum replaced by a greater or equal key: the last of several maxima
RECURSIVE MaxFromLast(_, _, _)
MaxFromLast(definitions, i, best) ==
    IF i > Len(definitions) THEN best
    ELSE MaxFromLast(definitions, i + 1,
                     IF Completeness(definitions[i]) >= Completeness(definitions[best])
                     THEN i ELSE best)

\* max(definitions, key=...): the running maximum is replaced only by a
\* strictly greater key, so the first of several maxima is returned
RECURSIVE MaxFrom(_, _, _)
MaxFrom(definitions, i, best) ==
    IF i > Len(definitions) THEN best
    ELSE MaxFrom(definitions, i + 1,
                 IF Completeness(definitions[i]) > Completeness(definitions[best])
                 THEN i ELSE best)

\* index of most_complete in definitions
MostComplete(definitions) == MaxFrom(definitions, 2, 1)

\* the variations list taken by comparing the definitions, not their hashes
RECURSIVE VariationsByDefinition(_, _, _)
VariationsByDefinition(definitions, most_complete, i) ==
    IF i > Len(definitions) THEN <<>>
    ELSE (IF definitions[i].definition # most_complete.definition
          THEN <<[source |-> definitions[i].source,
                  difference |-> _compute_difference(most_complete.definition,
                                                     definitions[i].definition)]>>
          ELSE <<>>)
         \o VariationsByDefinition(definitions, most_complete, i + 1)

\* the variations list: one entry per definition whose hash is not most_complete's
RECURSIVE Variations(_, _, _)
Variations(definitions, most_complete, i) ==
    IF i > Len(definitions) THEN <<>>
    ELSE (IF definitions[i].hash # most_complete.hash
          THEN <<[source |-> definitions[i].source,
                  difference |-> _compute_difference(most_complete.definition,
                                                     definitions[i].definition)]>>
          ELSE <<>>)
         \o Variations(definitions, most_complete, i + 1)

\* the sources with each workbook listed once, at its first registration
RECURSIVE SourcesOnce(_)
SourcesOnce(definitions) ==
    IF definitions = <<>> THEN <<>>
    ELSE LET front == SubSeq(definitions, 1, Len(definitions) - 1)
             last == definitions[Len(definitions)].source
         IN  IF \E j \in 1..Len(front) : front[j].source = last
             THEN SourcesOnce(front)
             ELSE Append(SourcesOnce(front), last)

\* [d['source'] for d in definitions]
SourcesOf(definitions) == [i \in 1..Len(definitions) |-> definitions[i].source]

\* _consolidate_view_definitions with merge_strategy="identical" left out of
\* the first return, so that the dataclass default stands
ConsolidateDefinitionsNoIdentical(view_name, definitions) ==
    LET hashes == {definitions[i].hash : i \in 1..Len(definitions)}
    IN  IF Cardinality(hashes) = 1
        THEN UnifiedView(view_name, SourcesOf(definitions),
                         definitions[1].definition, <<>>, "most_complete")
        ELSE LET most_complete == definitions[MostComplete(definitions)]
                 variations == Variations(definitions, most_complete, 1)
             IN  UnifiedView(view_name, SourcesOf(definitions),
                             most_complete.definition, variations,
                             IF variations = <<>> THEN "most_complete"
                             ELSE "manual_review")

\* _consolidate_view_definitions with the test of the last conditional turned
\* round: "most_complete" if variations else "manual_review"
ConsolidateDefinitionsInverted(view_name, definitions) ==
    LET hashes == {definitions[i].hash : i \in 1..Len(definitions)}
    IN  IF Cardinality(hashes) = 1
        THEN UnifiedView(view_name, SourcesOf(definitions),
                         definitions[1].definition, <<>>, "identical")
        ELSE LET most_complete == definitions[MostComplete(definitions)]
                 variations == Variations(definitions, most_complete, 1)
             IN  UnifiedView(view_name, SourcesOf(definitions),
                             most_complete.definition, variations,
                             IF variations # <<>> THEN "most_complete"
                             ELSE "manual_review")

_consolidate_view_definitions(view_name, definitions) ==
    LET hashes == {definitions[i].hash : i \in 1..Len(definitions)}
    IN  IF Cardinality(hashes) = 1
        THEN UnifiedView(view_name, SourcesOf(definitions),
                         definitions[1].definition, <<>>, "identical")
        ELSE LET most_complete == definitions[MostComplete(definitions)]
                 variations == Variations(definitions, most_complete, 1)
             IN  UnifiedView(view_name, SourcesOf(definitions),
                             most_complete.definition, variations,
                             IF variations = <<>> THEN "most_complete"
                             ELSE "manual_review")

\* the single-observation branch with source_workbooks left to its default
ConsolidateItemNoSource(view_name, definitions) ==
    IF Len(definitions) = 1
    THEN UnifiedView(view_name, <<>>,
                     definitions[1].definition, <<>>, DefaultMergeStrategy)
    ELSE _consolidate_view_definitions(view_name, definitions)

\* the unified view consolidate() makes of one item of the registry
ConsolidateItem(view_name, definitions) ==
    IF Len(definitions) = 1
    THEN UnifiedView(view_name, <<definitions[1].source>>,
                     definitions[1].definition, <<>>, DefaultMergeStrategy)
    ELSE _consolidate_view_definitions(view_name, definitions)

\* the dict consolidate() returns, in the registry's order
consolidate(registry) ==
    [i \in 1..Len(registry) |->
        ConsolidateItem(registry[i].name, registry[i].definitions)]

\* consolidate() finding most_complete by sorting each list in place, most
\* complete first, instead of by max()
RECURSIVE SortedByCompleteness(_)
SortedByCompleteness(definitions) ==
    IF definitions = <<>> THEN <<>>
    ELSE LET k == MostComplete(definitions)
         IN  <<definitions[k]>> \o
             SortedByCompleteness(
                 [j \in 1..(Len(definitions) - 1) |->
                     IF j < k THEN definitions[j] ELSE definitions[j + 1]])

RegistrySortedInPlace(registry) ==
    [i \in 1..Len(registry) |->
        [registry[i] EXCEPT !.definitions = SortedByCompleteness(@)]]

\* consolidate() only reads self.view_registry
RegistryAfterConsolidate(registry) == registry

-----------------------------------------------------------------------------
(* The record of the calls made *)

\* op: the call; after: the call made before it
NoCall == [op |-> "init", after |-> "init", name |-> None, definition |-> None,
           source |-> None]

\* no pure function applied yet
NoOut == [op |-> "none"]

-----------------------------------------------------------------------------
(* CalculatedFieldConsolidator *)

\* re.sub(r'\s+', ' ', formula.lower().strip())
NormalizedFormula(formula) == SubRuns(Strip(Lower(formula), Whitespace), Whitespace, " ")

\* the field registry after register_field(field_name, formula, workbook_source);
\* the registry is a defaultdict(list), so a missing list is made on the way
register_field(registry, field_name, formula, workbook_source) ==
    LET keyed == IF HasKey(registry, field_name) THEN registry
                 ELSE Append(registry, [name |-> field_name, definitions |-> <<>>])
        i == KeyIndex(keyed, field_name)
    IN  [keyed EXCEPT ![i].definitions =
            Append(@, [formula |-> formula,
                       normalized |-> NormalizedFormula(formula),
                       source |-> workbook_source])]

\* find_duplicates(): duplicates = {} and return duplicates
find_duplicates(registry) == <<>>

-----------------------------------------------------------------------------
(* The registry specification: any sequence of calls on one ViewConsolidator *)

\* no run of the orchestrator: EnterpriseMigrationOrchestrator.__init__ over
\* no workbook, and nothing called on it
NoRun ==
    /\ field_registry = <<>>
    /\ workbook_paths = <<>>
    /\ parsers = <<>>
    /\ pc = "idle"
    /\ wb = 0
    /\ ds = 0
    /\ events = <<>>
    /\ unified_views = <<>>
    /\ duplicate_calcs = <<>>
    /\ report = None
    /\ lookml_files = None

\* observations held in the registry
RECURSIVE Total(_)
Total(registry) ==
    IF registry = <<>> THEN 0
    ELSE Len(Head(registry).definitions) + Total(Tail(registry))

Init ==
    /\ view_registry = <<>>
    /\ result = None
    /\ last_call = NoCall
    /\ def1 = None
    /\ def2 = None
    /\ out = NoOut
    /\ NoRun

RegisterView ==
    /\ Total(view_registry) < MaxObservations
    /\ \E view_name \in ViewNames, view_definition \in Definitions,
          workbook_source \in Workbooks :
        /\ view_registry' = register_view(view_registry, view_name,
                                          view_definition, workbook_source)
        /\ last_call' = [op |-> "register_view", after |-> last_call.op,
                         name |-> view_name, definition |-> view_definition,
                         source |-> workbook_source]
    /\ result' = None
    /\ UNCHANGED <<def1, def2, out, field_registry, run_vars>>

Consolidate ==
    /\ result' = consolidate(view_registry)
    /\ view_registry' = RegistryAfterConsolidate(view_registry)
    /\ last_call' = [NoCall EXCEPT !.op = "consolidate", !.after = last_call.op]
    /\ UNCHANGED <<def1, def2, out, field_registry, run_vars>>

Next == RegisterView \/ Consolidate

Spec == Init /\ [][Next]_vars

-----------------------------------------------------------------------------
(* The pure functions, applied to every two definitions def1 and def2 *)

InitDefs ==
    /\ view_registry = <<>>
    /\ result = None
    /\ last_call = NoCall
    /\ def1 \in AllDefinitions
    /\ def2 \in AllDefinitions
    /\ out = NoOut
    /\ NoRun

\* _hash_definition of each
HashDefinitions ==
    /\ out' = [op |-> "hash", hash1 |-> _hash_definition(def1),
               hash2 |-> _hash_definition(def2)]
    /\ UNCHANGED <<view_registry, result, last_call, def1, def2, field_registry,
                   run_vars>>

\* _compute_difference both ways round
ComputeDifference ==
    /\ out' = [op |-> "difference", diff12 |-> _compute_difference(def1, def2),
               diff21 |-> _compute_difference(def2, def1)]
    /\ UNCHANGED <<view_registry, result, last_call, def1, def2, field_registry,
                   run_vars>>

\* a fresh registry, def1 registered from W1 and def2 from W2 under one name,
\* then consolidate()
ConsolidateBoth ==
    /\ out' = [op |-> "consolidate",
               views |-> consolidate(
                   register_view(register_view(<<>>, "Sales", def1, "W1"),
                                 "Sales", def2, "W2"))]
    /\ UNCHANGED <<view_registry, result, last_call, def1, def2, field_registry,
                   run_vars>>

NextDefs == HashDefinitions \/ ComputeDifference \/ ConsolidateBoth

SpecDefs == InitDefs /\ [][NextDefs]_vars

-----------------------------------------------------------------------------
(* Properties of the registry specification *)

\* the list the registry holds for a name; no list is the empty list
ListOf(registry, view_name) ==
    IF HasKey(registry, view_name) THEN Lookup(registry, view_name) ELSE <<>>

\* the names with a list, in the order the lists were made
KeysOf(registry) == [i \in 1..Len(registry) |-> registry[i].name]

\* the state is the one a consolidate() call returned in
Consolidated == last_call.op = "consolidate"

\* the cases of section 4.2 for one list of observations
AllSameHash(definitions) ==
    \A i, j \in 1..Len(definitions) : definitions[i].hash = definitions[j].hash

\* C1: register_view(name, record, source) is append-only: the list of `name`
\* afterwards is the list before with the one observation (record, source,
\* fingerprint of record) added at its end, and the list of every other name is
\* as it was; so nothing registered is overwritten, merged or reordered.
C1_AppendOnly ==
    [][last_call'.op = "register_view" =>
        LET n == last_call'.name
            obs == [definition |-> last_call'.definition,
                    source |-> last_call'.source,
                    hash |-> _hash_definition(last_call'.definition)]
        IN  /\ ListOf(view_registry', n) = Append(ListOf(view_registry, n), obs)
            /\ \A m \in ViewNames \ {n} :
                    ListOf(view_registry', m) = ListOf(view_registry, m)
            /\ KeysOf(view_registry') =
                    IF HasKey(view_registry, n) THEN KeysOf(view_registry)
                    ELSE Append(KeysOf(view_registry), n)]_vars

\* the empty name registered a second time from the same workbook with another
\* definition, next to a list of another name
C1_Witness ==
    /\ last_call.op = "register_view"
    /\ last_call.name = ""
    /\ HasKey(view_registry, "Sales")
    /\ HasKey(view_registry, "")
    /\ LET l == Lookup(view_registry, "")
       IN  /\ Len(l) = 2
           /\ l[1].source = l[2].source
           /\ l[1].definition # l[2].definition

C3_IdenticalAnySize ==
    Consolidated =>
        \A i \in 1..Len(view_registry) :
            AllSameHash(view_registry[i].definitions) =>
                result[i].merge_strategy = "identical"

\* C3 amended: a name with two or more observations whose fingerprints are
\* pairwise equal is "identical"; a name with one observation keeps the
\* default merge_strategy, "most_complete".
C3_IdenticalFromTwo ==
    Consolidated =>
        \A i \in 1..Len(view_registry) :
            LET definitions == view_registry[i].definitions
            IN  /\ result[i].name = view_registry[i].name
                /\ (Len(definitions) >= 2 /\ AllSameHash(definitions)) =>
                        result[i].merge_strategy = "identical"
                /\ Len(definitions) = 1 =>
                        result[i].merge_strategy = "most_complete"

\* three observations of one name with one fingerprint and two different
\* definitions, consolidated
C3_Witness ==
    /\ Consolidated
    /\ \E i \in 1..Len(view_registry) :
        LET definitions == view_registry[i].definitions
        IN  /\ Len(definitions) = 3
            /\ AllSameHash(definitions)
            /\ definitions[1].definition # definitions[2].definition
            /\ result[i].merge_strategy = "identical"

\* C4: a name with exactly one observation (r, s) gets a unified view with no
\* variations, canonical_definition r and source_workbooks [s].
C4_SingleObservation ==
    Consolidated =>
        \A i \in 1..Len(view_registry) :
            LET definitions == view_registry[i].definitions
            IN  Len(definitions) = 1 =>
                    /\ result[i].name = view_registry[i].name
                    /\ result[i].variations = <<>>
                    /\ result[i].canonical_definition = definitions[1].definition
                    /\ result[i].source_workbooks = <<definitions[1].source>>

\* a name with one observation consolidated next to a name with two
C4_Witness ==
    /\ Consolidated
    /\ Len(view_registry) = 2
    /\ Len(view_registry[1].definitions) = 2
    /\ Len(view_registry[2].definitions) = 1
    /\ result[2].source_workbooks = <<"W2">>

\* the first observation, in registration order, that no other exceeds in
\* len(columns) + len(calculated_fields)
FirstMostComplete(definitions) ==
    CHOOSE k \in 1..Len(definitions) :
        /\ \A j \in 1..Len(definitions) :
                Completeness(definitions[j]) <= Completeness(definitions[k])
        /\ \A j \in 1..(k - 1) :
                Completeness(definitions[j]) < Completeness(definitions[k])

\* C5: for a name with two or more observations and two or more fingerprints,
\* canonical_definition is the record of the observation with the greatest
\* len(columns) + len(calculated_fields), the first registered of them when
\* several have it.
C5_CanonicalSelection ==
    Consolidated =>
        \A i \in 1..Len(view_registry) :
            LET definitions == view_registry[i].definitions
            IN  (Len(definitions) >= 2 /\ ~AllSameHash(definitions)) =>
                    result[i].canonical_definition =
                        definitions[FirstMostComplete(definitions)].definition

\* two observations tie for the greatest count with different definitions, a
\* less complete one was registered before them, and the first of the two is
\* the canonical one
C5_Witness ==
    /\ Consolidated
    /\ \E i \in 1..Len(view_registry) :
        LET definitions == view_registry[i].definitions
        IN  /\ Len(definitions) = 3
            /\ Completeness(definitions[1]) < Completeness(definitions[2])
            /\ Completeness(definitions[2]) = Completeness(definitions[3])
            /\ definitions[2].hash # definitions[3].hash
            /\ result[i].canonical_definition = definitions[2].definition

ColumnNames(definition) ==
    {definition.columns[j].name : j \in 1..Len(definition.columns)}

CalcFieldNames(definition) ==
    {definition.calculated_fields[j].name :
        j \in 1..Len(definition.calculated_fields)}

\* the difference section 4.2 describes, of another record against the canonical
DifferenceFrom(canonical, other) ==
    [columns_only_in_def1 |-> ColumnNames(canonical) \ ColumnNames(other),
     columns_only_in_def2 |-> ColumnNames(other) \ ColumnNames(canonical),
     calc_fields_only_in_def1 |-> CalcFieldNames(canonical) \ CalcFieldNames(other),
     calc_fields_only_in_def2 |-> CalcFieldNames(other) \ CalcFieldNames(canonical)]

\* the example of section 8: Sales [OrderID, Amount] from W1, then
\* [OrderID, Amount, Region] from W2
IsSalesExample(definitions) ==
    /\ Len(definitions) = 2
    /\ definitions[1].source = "W1"
    /\ NamesOf(definitions[1].definition.columns) = <<"OrderID", "Amount">>
    /\ definitions[1].definition.calculated_fields = <<>>
    /\ definitions[2].source = "W2"
    /\ NamesOf(definitions[2].definition.columns) = <<"OrderID", "Amount", "Region">>
    /\ definitions[2].definition.calculated_fields = <<>>
    /\ definitions[1].definition.table = definitions[2].definition.table

\* C6: for a name with two or more fingerprints, variations holds, in
\* registration order, one entry {source, difference} for each observation
\* whose fingerprint is not the canonical observation's and none for the
\* others; the difference is the four set differences of column names and of
\* calculated-field names between the canonical record and that observation's.
\* The example of section 8 gives one variation, for W1, with Region the only
\* column the canonical alone has.
C6_Variations ==
    Consolidated =>
        \A i \in 1..Len(view_registry) :
            LET definitions == view_registry[i].definitions
                canonical == definitions[FirstMostComplete(definitions)]
                differing == {j \in 1..Len(definitions) :
                                definitions[j].hash # canonical.hash}
                place(j) == Cardinality({m \in differing : m <= j})
                variations == result[i].variations
            IN  ~AllSameHash(definitions) =>
                    /\ Len(variations) = Cardinality(differing)
                    /\ \A j \in differing :
                        /\ variations[place(j)].source = definitions[j].source
                        /\ variations[place(j)].difference =
                               DifferenceFrom(canonical.definition,
                                              definitions[j].definition)
                    /\ IsSalesExample(definitions) =>
                        variations =
                            <<[source |-> "W1",
                               difference |->
                                  [columns_only_in_def1 |-> {"Region"},
                                   columns_only_in_def2 |-> {},
                                   calc_fields_only_in_def1 |-> {},
                                   calc_fields_only_in_def2 |-> {}]]>>

\* three observations of which the first is the canonical one, the second has
\* its fingerprint and another definition, and the third differs: one
\* variation, for the third
C6_Witness ==
    /\ Consolidated
    /\ \E i \in 1..Len(view_registry) :
        LET definitions == view_registry[i].definitions
        IN  /\ Len(definitions) = 3
            /\ FirstMostComplete(definitions) = 1
            /\ definitions[2].hash = definitions[1].hash
            /\ definitions[2].definition # definitions[1].definition
            /\ definitions[3].hash # definitions[1].hash
            /\ Len(result[i].variations) = 1
            /\ result[i].variations[1].source = definitions[3].source
            /\ result[i].variations[1].difference.columns_only_in_def2 # {}

\* the example of section 8, consolidated
C6_ExampleReached ==
    /\ Consolidated
    /\ \E i \in 1..Len(view_registry) :
        /\ view_registry[i].name = "Sales"
        /\ IsSalesExample(view_registry[i].definitions)

\* C7: a name with two or more observations whose fingerprints are not all
\* equal gets a non-empty variations list and "manual_review", never
\* "most_complete" with no variations; and every unified view is
\* "manual_review" exactly when its variations list is non-empty.
C7_ManualReview ==
    Consolidated =>
        \A i \in 1..Len(view_registry) :
            LET definitions == view_registry[i].definitions
            IN  /\ (Len(definitions) >= 2 /\ ~AllSameHash(definitions)) =>
                        /\ result[i].variations # <<>>
                        /\ result[i].merge_strategy = "manual_review"
                /\ result[i].merge_strategy = "manual_review" <=>
                        result[i].variations # <<>>

\* two observations that differ in the table alone: all four differences are
\* empty and the view is still under review
C7_Witness ==
    /\ Consolidated
    /\ \E i \in 1..Len(view_registry) :
        /\ Len(view_registry[i].definitions) = 2
        /\ result[i].merge_strategy = "manual_review"
        /\ Len(result[i].variations) = 1
        /\ result[i].variations[1].difference =
              [columns_only_in_def1 |-> {}, columns_only_in_def2 |-> {},
               calc_fields_only_in_def1 |-> {}, calc_fields_only_in_def2 |-> {}]

\* C8: in each of the three outcomes source_workbooks is the sources of the
\* name's observations in registration order, one per observation, so a
\* workbook that registered the name twice is listed twice.
C8_SourceWorkbooks ==
    Consolidated =>
        \A i \in 1..Len(view_registry) :
            LET definitions == view_registry[i].definitions
            IN  /\ result[i].name = view_registry[i].name
                /\ Len(result[i].source_workbooks) = Len(definitions)
                /\ \A j \in 1..Len(definitions) :
                        result[i].source_workbooks[j] = definitions[j].source

\* W1 registered a name twice with W2 in between, and the view is under review
C8_Witness ==
    /\ Consolidated
    /\ \E i \in 1..Len(result) :
        /\ result[i].source_workbooks = <<"W1", "W2", "W1">>
        /\ result[i].merge_strategy = "manual_review"

-----------------------------------------------------------------------------
(* Properties of the pure functions *)

\* C9: swapping the arguments of the difference swaps its two sides: the
\* columns only in the other record of diff(A, B) are the columns only in the
\* canonical record of diff(B, A), and so for the calculated fields.
C9_DifferenceSymmetry ==
    out.op = "difference" =>
        /\ out.diff12.columns_only_in_def2 = out.diff21.columns_only_in_def1
        /\ out.diff12.columns_only_in_def1 = out.diff21.columns_only_in_def2
        /\ out.diff12.calc_fields_only_in_def2 = out.diff21.calc_fields_only_in_def1
        /\ out.diff12.calc_fields_only_in_def1 = out.diff21.calc_fields_only_in_def2

\* the difference taken of two records of which the second alone has a column
\* and the first alone a calculated field
C9_Witness ==
    /\ out.op = "difference"
    /\ out.diff12.columns_only_in_def1 = {}
    /\ out.diff12.columns_only_in_def2 = {"Region"}
    /\ out.diff21.columns_only_in_def1 = {"Region"}
    /\ out.diff12.calc_fields_only_in_def1 = {"Profit"}
    /\ out.diff21.calc_fields_only_in_def2 = {"Profit"}

\* how often a name occurs in a list of columns or calculated fields
Occurrences(seq, n) == Cardinality({j \in 1..Len(seq) : seq[j].name = n})

\* the two records agree on table, on the multiset of column names and on the
\* multiset of calculated-field names
SameIdentity(a, b) ==
    /\ a.table = b.table
    /\ \A n \in ColumnNames(a) \cup ColumnNames(b) :
            Occurrences(a.columns, n) = Occurrences(b.columns, n)
    /\ \A n \in CalcFieldNames(a) \cup CalcFieldNames(b) :
            Occurrences(a.calculated_fields, n) = Occurrences(b.calculated_fields, n)

\* C10: two records have equal fingerprints exactly when they agree on table,
\* on the multiset of column names and on the multiset of calculated-field
\* names, whatever their column datatypes, roles and order, database, schema,
\* name and custom query; two such records registered under one name are
\* consolidated as "identical", the first registered being canonical, with no
\* variation.
C10_FingerprintIdentity ==
    /\ out.op = "hash" => (out.hash1 = out.hash2 <=> SameIdentity(def1, def2))
    /\ (out.op = "consolidate" /\ SameIdentity(def1, def2)) =>
            /\ Len(out.views) = 1
            /\ out.views[1].merge_strategy = "identical"
            /\ out.views[1].canonical_definition = def1
            /\ out.views[1].variations = <<>>
            /\ out.views[1].source_workbooks = <<"W1", "W2">>

\* two records consolidated that agree on the three and differ in the order,
\* datatype and role of their columns, in database, schema, name and custom query
C10_Witness ==
    /\ out.op = "consolidate"
    /\ SameIdentity(def1, def2)
    /\ def1.columns = <<OrderID, Amount>>
    /\ def2.columns = <<AmountText, OrderID>>
    /\ def1.database # def2.database
    /\ def1.schema # def2.schema
    /\ def1.name # def2.name
    /\ def1.custom_sql # def2.custom_sql
    /\ out.views[1].merge_strategy = "identical"

\* the fingerprints taken of two records with the same set of column names
\* and different multisets
C10_DifferReached ==
    /\ out.op = "hash"
    /\ def1.table = def2.table
    /\ def1.calculated_fields = def2.calculated_fields
    /\ ColumnNames(def1) = ColumnNames(def2)
    /\ out.hash1 # out.hash2

-----------------------------------------------------------------------------
(* The calculated-field specification: any sequence of calls on one
   CalculatedFieldConsolidator *)

InitFields ==
    /\ view_registry = <<>>
    /\ result = None
    /\ last_call = NoCall
    /\ def1 = None
    /\ def2 = None
    /\ out = NoOut
    /\ NoRun

RegisterField ==
    /\ Total(field_registry) < MaxFields
    /\ \E field_name \in FieldNames, formula \in Formulas,
          workbook_source \in Workbooks :
        /\ field_registry' = register_field(field_registry, field_name, formula,
                                            workbook_source)
        /\ last_call' = [op |-> "register_field", after |-> last_call.op,
                         name |-> field_name, definition |-> formula,
                         source |-> workbook_source]
    /\ result' = None
    /\ UNCHANGED <<view_registry, def1, def2, out, run_vars>>

FindDuplicates ==
    /\ result' = find_duplicates(field_registry)
    /\ last_call' = [NoCall EXCEPT !.op = "find_duplicates", !.after = last_call.op]
    /\ UNCHANGED <<view_registry, def1, def2, out, field_registry, run_vars>>

NextFields == RegisterField \/ FindDuplicates

SpecFields == InitFields /\ [][NextFields]_vars

\* the normalized formulas registered under a field name
NormalizedOf(registrations) ==
    {registrations[j].normalized : j \in 1..Len(registrations)}

\* C12: find_duplicates() returns an entry for every field name with two or
\* more registrations whose normalized formulas differ, holding the distinct
\* variations, and no entry for a field name whose registrations all have
\* the same normalized formula.
C12_DuplicatesFound ==
    last_call.op = "find_duplicates" =>
        \A i \in 1..Len(field_registry) :
            LET normalized == NormalizedOf(field_registry[i].definitions)
                entries == {k \in 1..Len(result) :
                              result[k].name = field_registry[i].name}
            IN  /\ Cardinality(normalized) >= 2 =>
                    /\ Cardinality(entries) = 1
                    /\ \A k \in entries :
                           Cardinality(result[k].variations) = Cardinality(normalized)
                /\ Cardinality(normalized) = 1 => entries = {}

\* what the code does: find_duplicates() returns the empty mapping whatever
\* was registered
C12_AlwaysEmpty ==
    last_call.op = "find_duplicates" => result = <<>>

\* find_duplicates() called with one field registered from two workbooks with
\* formulas that differ after normalization
C12_DuplicateRegistered ==
    /\ last_call.op = "find_duplicates"
    /\ \E i \in 1..Len(field_registry) :
        LET registrations == field_registry[i].definitions
        IN  /\ Len(registrations) = 2
            /\ registrations[1].source # registrations[2].source
            /\ registrations[1].normalized # registrations[2].normalized

\* formulas that differ in case and whitespace alone are registered with one
\* normalized formula
C12_NormalizationReached ==
    \E i \in 1..Len(field_registry) :
        LET registrations == field_registry[i].definitions
        IN  /\ Len(registrations) = 3
            /\ Cardinality({registrations[j].formula : j \in 1..3}) = 3
            /\ NormalizedOf(registrations) = {<<"s", "u", "m", " ", "(", "a", ")">>}

-----------------------------------------------------------------------------
(* TableauParserWrapper and EnterpriseMigrationOrchestrator *)

\* the name of the dashboard __init__ gives every parser
DashboardName ==
    <<"T", "o", "p", " ", "R", "i", "s", "i", "n", "g", " ",
      "T", "e", "r", "m", "s", " ", "T", "r", "e", "n", "d">>

\* TableauParserWrapper(file_path) after __init__ and parse()
Parser(file_path, data_sources) ==
    [file_path |-> file_path,
     data_sources |-> data_sources,
     dashboards |-> <<[name |-> DashboardName, file_path |-> file_path]>>]

\* parse() with no except clause for ET.ParseError: the error leaves parse()
ParseRaising(document) ==
    IF document.kind = "xml"
    THEN [raised |-> FALSE, data_sources |-> document.data_sources]
    ELSE [raised |-> TRUE, data_sources |-> <<>>]

\* parse(): ET.ParseError is caught and parse returns with data_sources
\* empty; a missing remote-name makes meta.find('remote-name').text raise
\* AttributeError, which nothing in the run catches
parse(document) ==
    IF document.kind = "malformed"
    THEN [raised |-> FALSE, data_sources |-> <<>>]
    ELSE IF document.kind = "incomplete"
    THEN [raised |-> TRUE, data_sources |-> <<>>]
    ELSE [raised |-> FALSE, data_sources |-> document.data_sources]

\* view_def of analyze_all_workbooks for the data source source
view_def(source) ==
    ViewDef(source.name, source.table, source.database, source.schema,
            source.columns, source.calculated_fields, source.custom_sql)

\* analyze_all_workbooks with the consolidate() line indented into the for
\* loop over workbook_paths: consolidate() after every workbook
FlowConsolidateInLoop(at, more) ==
    IF at = "data_sources_done"
    THEN "consolidate"
    ELSE (IF more THEN "parse" ELSE "find_duplicates")

\* The control flow of analyze_all_workbooks: where the run goes when the data
\* sources of a workbook are all registered, and when consolidate() has
\* returned.  more: the for loop over workbook_paths has workbooks left.
Flow(at, more) ==
    IF at = "data_sources_done"
    THEN (IF more THEN "parse" ELSE "consolidate")
    ELSE "find_duplicates"

\* total_views_before taken as len(self.parsers)
CountParsers(ps) == Len(ps)

\* sum(len(p.data_sources) for p in self.parsers)
RECURSIVE SumDataSources(_)
SumDataSources(ps) ==
    IF ps = <<>> THEN 0
    ELSE Len(Head(ps).data_sources) + SumDataSources(Tail(ps))

IsManualReview(v) == v.merge_strategy = "manual_review"

\* s[:n]
Prefix(str, n) == SubSeq(str, 1, IF Len(str) < n THEN Len(str) ELSE n)

\* the slice of recommended_formula
FormulaSlice == 100

_generate_consolidation_report(paths, ps, views, calcs) ==
    LET total_views_before == SumDataSources(ps)
        total_views_after == Len(views)
        views_requiring_review == SelectSeq(views, IsManualReview)
    IN  [summary |->
            [workbooks_analyzed |-> Len(paths),
             views_before_consolidation |-> total_views_before,
             views_after_consolidation |-> total_views_after,
             views_eliminated |-> total_views_before - total_views_after,
             views_requiring_manual_review |-> Len(views_requiring_review),
             duplicate_calculated_fields |-> Len(calcs)],
         unified_views |->
            [i \in 1..Len(views) |->
                [name |-> views[i].name,
                 sources |-> views[i].source_workbooks,
                 merge_strategy |-> views[i].merge_strategy,
                 variations |-> Len(views[i].variations)]],
         views_requiring_review |->
            [i \in 1..Len(views_requiring_review) |->
                [name |-> views_requiring_review[i].name,
                 sources |-> views_requiring_review[i].source_workbooks,
                 variations |-> views_requiring_review[i].variations]],
         duplicate_calculated_fields |->
            [i \in 1..Len(calcs) |->
                [name |-> calcs[i].name,
                 variation_count |-> Len(calcs[i].variations),
                 recommended_formula |->
                    Prefix(calcs[i].recommendation.formula, FormulaSlice)
                        \o <<".", ".", ".">>,
                 sources |-> calcs[i].recommendation.sources]]]

\* _sanitize_name(name)
_sanitize_name(name) ==
    LET sanitized == Keep(name, WordChars \cup Whitespace)
        lowered == Replace(Lower(sanitized), " ", "_")
    IN  Strip(SubRuns(lowered, {"_"}, "_"), {"_"})

\* files[path] = content: a path already in the dict keeps its place and
\* takes the new content
SetItem(files, path, content) ==
    IF \E i \in 1..Len(files) : files[i].path = path
    THEN [i \in 1..Len(files) |->
            IF files[i].path = path THEN [path |-> path, content |-> content]
            ELSE files[i]]
    ELSE Append(files, [path |-> path, content |-> content])

\* f'views/{...}.view.lkml' and f'dashboards/{...}.dashboard.lookml'; the
\* path is kept as its folder, the name put into it and its ending
ViewPath(view_name) ==
    [folder |-> "views", name |-> _sanitize_name(view_name), ending |-> ".view.lkml"]

DashboardPath(dashboard_name) ==
    [folder |-> "dashboards", name |-> _sanitize_name(dashboard_name),
     ending |-> ".dashboard.lookml"]

\* The text of a generated file is not modelled; a file's content is what it
\* was generated from.
RECURSIVE ViewFiles(_, _)
ViewFiles(files, views) ==
    IF views = <<>> THEN files
    ELSE ViewFiles(SetItem(files, ViewPath(Head(views).name),
                           [of |-> "view", name |-> Head(views).name]),
                   Tail(views))

RECURSIVE DashboardFiles(_, _)
DashboardFiles(files, dashboards) ==
    IF dashboards = <<>> THEN files
    ELSE DashboardFiles(SetItem(files, DashboardPath(Head(dashboards).name),
                                [of |-> "dashboard",
                                 name |-> Head(dashboards).name,
                                 file_path |-> Head(dashboards).file_path]),
                        Tail(dashboards))

RECURSIVE ParserFiles(_, _)
ParserFiles(files, ps) ==
    IF ps = <<>> THEN files
    ELSE ParserFiles(DashboardFiles(files, Head(ps).dashboards), Tail(ps))

\* 'models/enterprise.model.lkml' and 'GOVERNANCE_REVIEW.md'
ModelPath ==
    [folder |-> "models",
     name |-> <<"e", "n", "t", "e", "r", "p", "r", "i", "s", "e">>,
     ending |-> ".model.lkml"]
GovernancePath ==
    [folder |-> "",
     name |-> <<"G", "O", "V", "E", "R", "N", "A", "N", "C", "E", "_", "R", "E", "V", "I", "E", "W">>,
     ending |-> ".md"]

generate_unified_lookml(views, ps) ==
    LET with_model == SetItem(<<>>, ModelPath, [of |-> "model"])
        with_views == ViewFiles(with_model, views)
        with_dashboards == ParserFiles(with_views, ps)
    IN  SetItem(with_dashboards, GovernancePath, [of |-> "governance"])

-----------------------------------------------------------------------------
(* The run specification: run_orchestrator over a list of workbooks, that is
   analyze_all_workbooks and then generate_unified_lookml *)

\* a call the run makes, with the workbooks begun when it is made
Event(op, begun) == [op |-> op, wb |-> begun]

InitRun ==
    /\ view_registry = <<>>
    /\ result = None
    /\ last_call = NoCall
    /\ def1 = None
    /\ def2 = None
    /\ out = NoOut
    /\ field_registry = <<>>
    /\ workbook_paths \in WorkbookLists(MaxWorkbooks)
    /\ parsers = <<>>
    /\ pc = IF workbook_paths = <<>> THEN "consolidate" ELSE "parse"
    /\ wb = 0
    /\ ds = 0
    /\ events = <<>>
    /\ unified_views = <<>>
    /\ duplicate_calcs = <<>>
    /\ report = None
    /\ lookml_files = None

\* the head of the for loop over workbook_paths: the next parser is made and
\* parse() is called on it
ParseWorkbook ==
    /\ pc = "parse"
    /\ wb' = wb + 1
    /\ events' = Append(events, Event("parse", wb + 1))
    /\ LET path == workbook_paths[wb + 1]
           parsed == parse(path.document)
       IN  IF parsed.raised
           THEN /\ pc' = "failed"
                /\ UNCHANGED <<parsers, ds>>
           ELSE /\ parsers' = Append(parsers, Parser(path.name, parsed.data_sources))
                /\ ds' = 0
                /\ pc' = IF parsed.data_sources = <<>>
                         THEN Flow("data_sources_done", wb + 1 < Len(workbook_paths))
                         ELSE "register"
    /\ UNCHANGED <<view_registry, result, last_call, def1, def2, out, field_registry,
                   workbook_paths, unified_views, duplicate_calcs, report,
                   lookml_files>>

\* the body of the for loop over parser.data_sources
RegisterDataSource ==
    /\ pc = "register"
    /\ LET parser == parsers[Len(parsers)]
           source == parser.data_sources[ds + 1]
           twb_name == workbook_paths[wb].name
       IN  /\ view_registry' = register_view(view_registry, source.name,
                                             view_def(source), twb_name)
           /\ last_call' = [op |-> "register_view", after |-> last_call.op,
                            name |-> source.name, definition |-> view_def(source),
                            source |-> twb_name]
           /\ pc' = IF ds + 1 < Len(parser.data_sources) THEN "register"
                    ELSE Flow("data_sources_done", wb < Len(workbook_paths))
    /\ ds' = ds + 1
    /\ result' = None
    /\ events' = Append(events, Event("register_view", wb))
    /\ UNCHANGED <<def1, def2, out, field_registry, workbook_paths, parsers, wb,
                   unified_views, duplicate_calcs, report, lookml_files>>

\* self.unified_views = self.view_consolidator.consolidate()
RunConsolidate ==
    /\ pc = "consolidate"
    /\ unified_views' = consolidate(view_registry)
    /\ result' = consolidate(view_registry)
    /\ view_registry' = RegistryAfterConsolidate(view_registry)
    /\ last_call' = [NoCall EXCEPT !.op = "consolidate", !.after = last_call.op]
    /\ events' = Append(events, Event("consolidate", wb))
    /\ pc' = Flow("consolidated", wb < Len(workbook_paths))
    /\ UNCHANGED <<def1, def2, out, field_registry, workbook_paths, parsers, wb, ds,
                   duplicate_calcs, report, lookml_files>>

\* self.duplicate_calcs = self.calc_consolidator.find_duplicates()
RunFindDuplicates ==
    /\ pc = "find_duplicates"
    /\ duplicate_calcs' = find_duplicates(field_registry)
    /\ events' = Append(events, Event("find_duplicates", wb))
    /\ pc' = "report"
    /\ UNCHANGED <<view_registry, result, last_call, def1, def2, out, field_registry,
                   workbook_paths, parsers, wb, ds, unified_views, report,
                   lookml_files>>

\* return self._generate_consolidation_report()
GenerateReport ==
    /\ pc = "report"
    /\ report' = _generate_consolidation_report(workbook_paths, parsers,
                                                unified_views, duplicate_calcs)
    /\ events' = Append(events, Event("report", wb))
    /\ pc' = "generate_lookml"
    /\ UNCHANGED <<view_registry, result, last_call, def1, def2, out, field_registry,
                   workbook_paths, parsers, wb, ds, unified_views, duplicate_calcs,
                   lookml_files>>

\* lookml_files = self.generate_unified_lookml() in export_unified_project
GenerateLookml ==
    /\ pc = "generate_lookml"
    /\ lookml_files' = generate_unified_lookml(unified_views, parsers)
    /\ events' = Append(events, Event("generate_unified_lookml", wb))
    /\ pc' = "done"
    /\ UNCHANGED <<view_registry, result, last_call, def1, def2, out, field_registry,
                   workbook_paths, parsers, wb, ds, unified_views, duplicate_calcs,
                   report>>

NextRun ==
    \/ ParseWorkbook
    \/ RegisterDataSource
    \/ RunConsolidate
    \/ RunFindDuplicates
    \/ GenerateReport
    \/ GenerateLookml

SpecRun == InitRun /\ [][NextRun]_vars

-----------------------------------------------------------------------------
(* Properties of the run specification *)

\* analyze_all_workbooks has returned its report
Reported == pc \in {"generate_lookml", "done"}

\* the names registered
RegisteredNames == {view_registry[i].name : i \in 1..Len(view_registry)}

\* C11: in the report of a run, views_before_consolidation is the number of
\* observations in the view registry, views_after_consolidation the number of
\* distinct registered names and the size of the unified-view mapping,
\* views_eliminated their difference and never negative, and
\* views_requiring_manual_review the number of unified views with
\* merge_strategy "manual_review" and the length of views_requiring_review.
C11_ReportSummary ==
    Reported =>
        LET summary == report.summary
            review == {i \in 1..Len(unified_views) :
                         unified_views[i].merge_strategy = "manual_review"}
        IN  /\ summary.views_before_consolidation = Total(view_registry)
            /\ summary.views_after_consolidation = Cardinality(RegisteredNames)
            /\ summary.views_after_consolidation = Len(unified_views)
            /\ summary.views_eliminated =
                   summary.views_before_consolidation
                       - summary.views_after_consolidation
            /\ summary.views_eliminated >= 0
            /\ summary.views_requiring_manual_review = Cardinality(review)
            /\ summary.views_requiring_manual_review =
                   Len(report.views_requiring_review)

\* a report over four observations of three names, one of them under review
C11_Witness ==
    /\ Reported
    /\ report.summary.workbooks_analyzed = 2
    /\ report.summary.views_before_consolidation = 4
    /\ report.summary.views_after_consolidation = 3
    /\ report.summary.views_eliminated = 1
    /\ report.summary.views_requiring_manual_review = 1

\* the files of a folder in the mapping generate_unified_lookml returned
FilesIn(folder) ==
    {i \in 1..Len(lookml_files) : lookml_files[i].path.folder = folder}

\* dashboards of all parsers
RECURSIVE SumDashboards(_)
SumDashboards(ps) ==
    IF ps = <<>> THEN 0
    ELSE Len(Head(ps).dashboards) + SumDashboards(Tail(ps))

\* C13: generate_unified_lookml returns one views/ file for each unified
\* view, one dashboards/ file for each dashboard of each parsed workbook and
\* one governance document: no file takes the place of another because two
\* names give one path.
C13_OneFileEach ==
    pc = "done" =>
        /\ Cardinality(FilesIn("views")) = Len(unified_views)
        /\ Cardinality(FilesIn("dashboards")) = SumDashboards(parsers)
        /\ Cardinality({i \in 1..Len(lookml_files) :
                           lookml_files[i].path = GovernancePath}) = 1

\* the view half of C13 alone
C13_OneFilePerView ==
    pc = "done" => Cardinality(FilesIn("views")) = Len(unified_views)

\* the dashboard half of C13 alone
C13_OneFilePerDashboard ==
    pc = "done" => Cardinality(FilesIn("dashboards")) = SumDashboards(parsers)

\* what the code does: no more files than views and dashboards, one model
\* file and one governance document, and every file from a view or a
\* dashboard whose name sanitizes to the file's name
C13_FilesGenerated ==
    pc = "done" =>
        /\ Cardinality(FilesIn("views")) <= Len(unified_views)
        /\ Cardinality(FilesIn("dashboards")) <= SumDashboards(parsers)
        /\ parsers # <<>> => Cardinality(FilesIn("dashboards")) = 1
        /\ \A i \in FilesIn("views") \cup FilesIn("dashboards") :
               lookml_files[i].path.name = _sanitize_name(lookml_files[i].content.name)
        /\ \A i, j \in 1..Len(lookml_files) :
               lookml_files[i].path = lookml_files[j].path => i = j

\* sanitized names: "Sales" and "sales!" give sales, "New  Orders" gives
\* new_orders
C13_SanitizeReached ==
    /\ pc = "done"
    /\ \E i, j \in 1..Len(unified_views) :
        /\ unified_views[i].name = SalesCaption
        /\ unified_views[j].name = SalesBangCaption
        /\ _sanitize_name(SalesCaption) = <<"s", "a", "l", "e", "s">>
        /\ _sanitize_name(SalesBangCaption) = <<"s", "a", "l", "e", "s">>
        /\ _sanitize_name(OrdersCaption) =
              <<"n", "e", "w", "_", "o", "r", "d", "e", "r", "s">>
        /\ _sanitize_name(DashboardName) =
              <<"t", "o", "p", "_", "r", "i", "s", "i", "n", "g", "_",
                "t", "e", "r", "m", "s", "_", "t", "r", "e", "n", "d">>

\* the data sources a document holds when it is well-formed, none otherwise
Held(document) == IF document.kind = "xml" THEN document.data_sources ELSE <<>>

\* the registry after registering the data sources sources of workbook twb_name
RECURSIVE RegisterAll(_, _, _)
RegisterAll(registry, sources, twb_name) ==
    IF sources = <<>> THEN registry
    ELSE RegisterAll(register_view(registry, Head(sources).name,
                                   view_def(Head(sources)), twb_name),
                     Tail(sources), twb_name)

\* the registry that holds every data source of the first n workbooks that
\* parsed, in input order
RECURSIVE RegistryOf(_)
RegistryOf(n) ==
    IF n = 0 THEN <<>>
    ELSE RegisterAll(RegistryOf(n - 1), Held(workbook_paths[n].document),
                     workbook_paths[n].name)

RECURSIVE HeldIn(_)
HeldIn(n) ==
    IF n = 0 THEN 0
    ELSE HeldIn(n - 1) + Len(Held(workbook_paths[n].document))

Malformed(i) == workbook_paths[i].document.kind = "malformed"

\* parse() fails on the document: on text that is not well-formed XML, and on
\* XML it cannot take the column metadata from
ParseFails(i) == workbook_paths[i].document.kind # "xml"

\* C14: a workbook whose document fails to parse does not make the run fail
\* and contributes no observation; every observation of the workbooks that
\* parsed is registered, and consolidation and the report are made over
\* exactly those observations.
C14_ParseFailureTolerated ==
    /\ pc = "failed" => ~ParseFails(wb)
    /\ \A i \in 1..wb :
          ParseFails(i) =>
            \A k \in 1..Len(view_registry) :
               \A j \in 1..Len(view_registry[k].definitions) :
                  view_registry[k].definitions[j].source # workbook_paths[i].name
    /\ Reported =>
          /\ view_registry = RegistryOf(Len(workbook_paths))
          /\ unified_views = consolidate(RegistryOf(Len(workbook_paths)))
          /\ report.summary.views_before_consolidation = HeldIn(Len(workbook_paths))

\* what the code does: C14 for the documents that are not well-formed XML,
\* the one failure parse() catches; the run fails on no such document
C14_PartialInput ==
    /\ pc = "failed" => ~Malformed(wb)
    /\ \A i \in 1..wb :
          Malformed(i) =>
            /\ i <= Len(parsers) => parsers[i].data_sources = <<>>
            /\ \A k \in 1..Len(view_registry) :
                 \A j \in 1..Len(view_registry[k].definitions) :
                    view_registry[k].definitions[j].source # workbook_paths[i].name
    /\ Reported =>
          /\ view_registry = RegistryOf(Len(workbook_paths))
          /\ unified_views = consolidate(RegistryOf(Len(workbook_paths)))
          /\ report.summary.views_before_consolidation = HeldIn(Len(workbook_paths))
          /\ report.summary.views_after_consolidation =
                 Len(RegistryOf(Len(workbook_paths)))

\* a finished run whose first workbook was malformed and whose second held
\* two data sources of one name, reported as two views before and one after
C14_MalformedReached ==
    /\ pc = "done"
    /\ Len(workbook_paths) = 2
    /\ Malformed(1)
    /\ Len(Held(workbook_paths[2].document)) = 2
    /\ Total(view_registry) = 2
    /\ report.summary.views_before_consolidation = 2
    /\ report.summary.views_after_consolidation = 1
    /\ unified_views[1].source_workbooks = <<"W2.twb", "W2.twb">>

\* the positions in events of the calls op
Calls(op) == {j \in 1..Len(events) : events[j].op = op}

\* C15: in a run the workbooks are taken one after the other in input order;
\* consolidate() is called at most once, and once in a run that returns; it is
\* called after every register_view call of every workbook, no workbook is
\* parsed and nothing is registered after it, and the report is made after
\* it; so each name's unified view is made from all observations of the name.
C15_RunOrder ==
    /\ \A j \in Calls("parse") :
          events[j].wb = Cardinality({k \in Calls("parse") : k <= j})
    /\ \A j \in Calls("register_view") :
          events[j].wb = Cardinality({k \in Calls("parse") : k < j})
    /\ Cardinality(Calls("consolidate")) <= 1
    /\ \A c \in Calls("consolidate") :
          /\ events[c].wb = Len(workbook_paths)
          /\ Cardinality({k \in Calls("parse") : k < c}) = Len(workbook_paths)
          /\ Cardinality({k \in Calls("register_view") : k < c}) =
                 HeldIn(Len(workbook_paths))
          /\ \A j \in Calls("parse") \cup Calls("register_view") : j < c
    /\ \A j \in Calls("report") : \E c \in Calls("consolidate") : c < j
    /\ Reported =>
          /\ Cardinality(Calls("consolidate")) = 1
          /\ Cardinality(Calls("report")) = 1
          /\ Len(unified_views) = Len(RegistryOf(Len(workbook_paths)))
          /\ \A i \in 1..Len(unified_views) :
                 Len(unified_views[i].source_workbooks) =
                    Len(RegistryOf(Len(workbook_paths))[i].definitions)

\* a finished run over two workbooks that both hold a data source of one
\* name: two registrations, then the one consolidate(), then the report
C15_Witness ==
    /\ pc = "done"
    /\ Len(workbook_paths) = 2
    /\ [j \in 1..Len(events) |-> events[j].op] =
          <<"parse", "register_view", "parse", "register_view", "consolidate",
            "find_duplicates", "report", "generate_unified_lookml">>
    /\ Len(unified_views) = 1
    /\ unified_views[1].source_workbooks = <<"W1.twb", "W2.twb">>
    /\ unified_views[1].merge_strategy = "manual_review"

====
